---------------------------- MODULE Spec2Model ----------------------------
(***************************************************************************)
(* A model of import-analyzer.py: the module resolver (moduleFilePath),    *)
(* the usage collector (processFile / handleStatement), the aggregation    *)
(* of usage per resolved module file and the __all__ reconcile loop with   *)
(* the final editor launch.                                                *)
(*                                                                         *)
(* Paths are sequences of path components (<<"pkg", "util.py">> is         *)
(* pkg/util.py, << >> is the root directory), dotted module names are      *)
(* sequences of their parts (the result of module.split(".")).             *)
(***************************************************************************)
EXTENDS Integers, Sequences, FiniteSets, TLC

VARIABLES
    \* ---- the run of the script ----
    tree,        \* the files under rootDir: path -> [status, body]
    dirs,        \* the directories under rootDir (paths)
    cwd,         \* where the process runs: "root", "mirror" or "empty"
    cwdTree,     \* the files relative paths reach when cwd is not rootDir
    pc,          \* position of the script
    error,       \* the exception that ended the run (<< >> if none)
    walkDirs,    \* os.walk: directories still to visit
    walkFiles,   \* os.walk: files of the current directory still to process
    imported_from_by_module_path,
    all_module_attr_access,
    diag,        \* files reported on stderr as failing to parse
    checkList,   \* sorted(to_check_imported_modules)
    idx,         \* number of loop iterations of the reconcile loop started
    skipAllAdd,
    modifiedFiles,
    unusedReport,   \* printed "unused symbol" lines: <<module_fpath, symbol>>
    addReport,      \* printed "ADD to __all__" lists: <<module_fpath, names>>
    editor,      \* "none", "running", "exited"
    editorArgs,  \* the paths given to the editor
    passNo,      \* how many times the script has been started
    treeAtStart, \* the tree as it was when this run started
    \* ---- the resolver applied to one query ----
    query, resolved,
    \* ---- the traversal applied to one syntax tree ----
    stmTree, leaves

vars == <<tree, dirs, cwd, cwdTree, pc, error, walkDirs, walkFiles,
          imported_from_by_module_path, all_module_attr_access, diag,
          checkList, idx, skipAllAdd, modifiedFiles, unusedReport, addReport,
          editor, editorArgs, passNo, treeAtStart,
          query, resolved, stmTree, leaves>>

runVars == <<tree, dirs, cwd, cwdTree, pc, error, walkDirs, walkFiles,
             imported_from_by_module_path, all_module_attr_access, diag,
             checkList, idx, skipAllAdd, modifiedFiles, unusedReport,
             addReport, editor, editorArgs, passNo, treeAtStart>>

(***************************************************************************)
(* Bounds                                                                  *)
(***************************************************************************)
\* statements of the importing file main.py
MaxStmts == 4
\* runs of the script on the same tree
MaxPasses == 2
\* nesting depth of the syntax trees given to the traversal
MaxDepth == 2

None == <<"None">>

Range(s) == {s[i] : i \in DOMAIN s}

(***************************************************************************)
(* Syntax trees.  A node has its kind, the scalar fields the collector     *)
(* reads (id, attr, module, names) and ch, its child fields, each a list   *)
(* of nodes (a single child is a list of one, an absent child is empty).   *)
(***************************************************************************)
Node(kind, ch) ==
    [kind |-> kind, id |-> "", attr |-> "", module |-> << >>,
     names |-> << >>, ch |-> ch]

NoCh == [none |-> << >>]

Name(id) == [Node("Name", NoCh) EXCEPT !.id = id]
Pass == Node("Pass", NoCh)
Constant(v) == [Node("Constant", NoCh) EXCEPT !.id = v]
\* alias(name, asname): name is dotted, asname "" when absent
alias(name, asname) == [name |-> name, asname |-> asname]
Import(names) == [Node("Import", NoCh) EXCEPT !.names = names]
\* module << >> is ast.ImportFrom.module = None ("from . import x")
ImportFrom(module, names) ==
    [Node("ImportFrom", NoCh) EXCEPT !.module = module, !.names = names]
Attribute(value, attr) ==
    [Node("Attribute", [value |-> <<value>>]) EXCEPT !.attr = attr]
Expr(value) == Node("Expr", [value |-> <<value>>])
If(test, body, orelse) ==
    Node("If", [test |-> <<test>>, body |-> body, orelse |-> orelse])
List(elts) == Node("List", [elts |-> elts])
Tuple(elts) == Node("Tuple", [elts |-> elts])
Assign(targets, value) ==
    Node("Assign", [targets |-> targets, value |-> <<value>>])
\* def f(): body
FunctionDef(body) ==
    Node("FunctionDef",
         [defaults |-> << >>, body |-> body, decorator_list |-> << >>])

\* the child lists of a node, whatever its kind
Children(n) == UNION {Range(n.ch[f]) : f \in DOMAIN n.ch}

\* field f of node n, empty when the node has no such field
Ch(n, f) == IF f \in DOMAIN n.ch THEN n.ch[f] ELSE << >>


(***************************************************************************)
(* The usage collector's traversal.  The closures of processFile append to *)
(* imports / imports_by_name / attr_access as they go; here the traversal  *)
(* returns, in the order of the visit, the nodes it hands to handleImport  *)
(* and handleImportFrom and the Attribute nodes whose pair                 *)
(* (value.id, attr) it adds to attr_access.                                *)
(***************************************************************************)
RECURSIVE handleStatement(_), handleStatementList(_)

handleAttribute(stm) ==
    IF stm.ch.value[1].kind = "Name" THEN <<stm>>
    ELSE handleStatement(stm.ch.value[1])

handleStatementList(statements) ==
    IF statements = << >> THEN << >>
    ELSE handleStatement(Head(statements))
            \o handleStatementList(Tail(statements))

handleStatement(stm) ==
    LET k == stm.kind
        c == stm.ch
    IN  CASE k = "Import" -> <<stm>>
          [] k = "ImportFrom" -> <<stm>>
          [] k = "Name" -> << >>
          [] k \in {"Pass", "Break", "Continue", "Delete", "Constant",
                    "JoinedStr", "Slice", "Global"} -> << >>
          [] k = "Assign" -> handleStatementList(c.value \o c.targets)
          [] k = "AugAssign" -> handleStatementList(c.target \o c.value)
          [] k = "Expr" -> handleStatementList(c.value)
          [] k = "Return" -> handleStatementList(c.value)
          [] k = "Yield" -> handleStatementList(c.value)
          [] k = "YieldFrom" -> handleStatementList(c.value)
          [] k = "Assert" -> handleStatementList(c.test \o c.msg)
          [] k = "IfExp" -> handleStatementList(c.test \o c.body \o c.orelse)
          [] k = "FunctionDef" ->
                handleStatementList(c.defaults \o c.body \o c.decorator_list)
          [] k = "ClassDef" -> handleStatementList(c.body)
          [] k = "BoolOp" -> handleStatementList(c.values)
          [] k = "Subscript" -> handleStatementList(c.value \o c.slice)
          [] k = "With" -> handleStatementList(c.items \o c.body)
          [] k \in {"List", "Tuple", "Set"} -> handleStatementList(c.elts)
          [] k = "Lambda" -> handleStatementList(c.body)
          [] k = "For" ->
                handleStatementList(c.target \o c.iter \o c.body \o c.orelse)
          [] k = "While" -> handleStatementList(c.test \o c.body \o c.orelse)
          [] k = "BinOp" -> handleStatementList(c.left \o c.right)
          [] k = "UnaryOp" -> handleStatementList(c.operand)
          [] k = "Try" ->
                handleStatementList(c.body \o c.handlers \o c.orelse
                                        \o c.finalbody)
          [] k = "ExceptHandler" -> handleStatementList(c.type \o c.body)
          [] k = "Call" -> handleStatementList(c.args \o c.keywords \o c.func)
          [] k = "If" -> handleStatementList(c.test \o c.body)
          [] k = "Compare" -> handleStatementList(c.left \o c.comparators)
          [] k = "withitem" ->
                handleStatementList(c.context_expr \o c.optional_vars)
          [] k = "Raise" -> handleStatementList(c.exc)
          [] k = "Dict" -> handleStatementList(c.keys \o c.values)
          [] k \in {"ListComp", "SetComp", "GeneratorExp", "DictComp"} ->
                handleStatementList(c.generators)
          [] k = "comprehension" ->
                handleStatementList(c.target \o c.iter \o c.ifs)
          [] k = "Attribute" -> handleAttribute(stm)
          [] k = "AnnAssign" ->
                handleStatementList(c.target \o c.annotation \o c.value)
          [] k = "NamedExpr" -> handleStatementList(c.target \o c.value)
          [] k = "AsyncFunctionDef" ->
                handleStatementList(c.defaults \o c.body \o c.decorator_list)
          [] k = "Starred" -> handleStatementList(c.value)
          [] k = "Nonlocal" -> << >>
          [] k = "TypeAlias" -> << >>
          \* "Unknown statemnent type" is printed, nothing is visited
          [] OTHER -> << >>

(***************************************************************************)
(* The syntactic forms and their child fields (Python's ast node classes). *)
(* A field holds statements ("stmt"), expressions ("expr") or the helper   *)
(* nodes withitem / ExceptHandler / comprehension; "one" fields hold one   *)
(* node, "many" fields a list.                                             *)
(***************************************************************************)
F(form, cls, field, type, arity) ==
    [form |-> form, cls |-> cls, field |-> field, type |-> type,
     arity |-> arity]

FormFields ==
    { F("Assign", "stmt", "targets", "expr", "many"),
      F("Assign", "stmt", "value", "expr", "one"),
      F("AugAssign", "stmt", "target", "expr", "one"),
      F("AugAssign", "stmt", "value", "expr", "one"),
      F("AnnAssign", "stmt", "target", "expr", "one"),
      F("AnnAssign", "stmt", "annotation", "expr", "one"),
      F("AnnAssign", "stmt", "value", "expr", "one"),
      F("If", "stmt", "test", "expr", "one"),
      F("If", "stmt", "body", "stmt", "many"),
      F("If", "stmt", "orelse", "stmt", "many"),
      F("For", "stmt", "target", "expr", "one"),
      F("For", "stmt", "iter", "expr", "one"),
      F("For", "stmt", "body", "stmt", "many"),
      F("For", "stmt", "orelse", "stmt", "many"),
      F("While", "stmt", "test", "expr", "one"),
      F("While", "stmt", "body", "stmt", "many"),
      F("While", "stmt", "orelse", "stmt", "many"),
      F("Try", "stmt", "body", "stmt", "many"),
      F("Try", "stmt", "handlers", "handler", "many"),
      F("Try", "stmt", "orelse", "stmt", "many"),
      F("Try", "stmt", "finalbody", "stmt", "many"),
      F("ExceptHandler", "handler", "type", "expr", "one"),
      F("ExceptHandler", "handler", "body", "stmt", "many"),
      F("With", "stmt", "items", "item", "many"),
      F("With", "stmt", "body", "stmt", "many"),
      F("withitem", "item", "context_expr", "expr", "one"),
      F("withitem", "item", "optional_vars", "expr", "one"),
      F("ListComp", "expr", "elt", "expr", "one"),
      F("ListComp", "expr", "generators", "comp", "many"),
      F("SetComp", "expr", "elt", "expr", "one"),
      F("SetComp", "expr", "generators", "comp", "many"),
      F("GeneratorExp", "expr", "elt", "expr", "one"),
      F("GeneratorExp", "expr", "generators", "comp", "many"),
      F("DictComp", "expr", "key", "expr", "one"),
      F("DictComp", "expr", "value", "expr", "one"),
      F("DictComp", "expr", "generators", "comp", "many"),
      F("comprehension", "comp", "target", "expr", "one"),
      F("comprehension", "comp", "iter", "expr", "one"),
      F("comprehension", "comp", "ifs", "expr", "many"),
      F("FunctionDef", "stmt", "defaults", "expr", "many"),
      F("FunctionDef", "stmt", "body", "stmt", "many"),
      F("FunctionDef", "stmt", "decorator_list", "expr", "many"),
      F("ClassDef", "stmt", "bases", "expr", "many"),
      F("ClassDef", "stmt", "body", "stmt", "many"),
      F("ClassDef", "stmt", "decorator_list", "expr", "many"),
      F("Call", "expr", "func", "expr", "one"),
      F("Call", "expr", "args", "expr", "many"),
      F("Call", "expr", "keywords", "expr", "many"),
      F("BoolOp", "expr", "values", "expr", "many"),
      F("BinOp", "expr", "left", "expr", "one"),
      F("BinOp", "expr", "right", "expr", "one"),
      F("UnaryOp", "expr", "operand", "expr", "one"),
      F("Compare", "expr", "left", "expr", "one"),
      F("Compare", "expr", "comparators", "expr", "many"),
      F("List", "expr", "elts", "expr", "many"),
      F("Tuple", "expr", "elts", "expr", "many"),
      F("Set", "expr", "elts", "expr", "many"),
      F("Dict", "expr", "keys", "expr", "many"),
      F("Dict", "expr", "values", "expr", "many"),
      F("Starred", "expr", "value", "expr", "one"),
      F("Expr", "stmt", "value", "expr", "one"),
      F("Return", "stmt", "value", "expr", "one"),
      F("Subscript", "expr", "value", "expr", "one"),
      F("Subscript", "expr", "slice", "expr", "one"),
      F("Lambda", "expr", "body", "expr", "one"),
      F("IfExp", "expr", "test", "expr", "one"),
      F("IfExp", "expr", "body", "expr", "one"),
      F("IfExp", "expr", "orelse", "expr", "one"),
      F("Attribute", "expr", "value", "expr", "one") }

Forms == {r.form : r \in FormFields}
FieldsOf(form) == {r \in FormFields : r.form = form}
ClassOf(form) == (CHOOSE r \in FormFields : r.form = form).cls

\* "for c in c" and "c as c"
plainComprehension ==
    Node("comprehension",
         [target |-> <<Name("c")>>, iter |-> <<Name("c")>>, ifs |-> << >>])
plainWithitem ==
    Node("withitem",
         [context_expr |-> <<Name("c")>>, optional_vars |-> <<Name("c")>>])

\* a node of the given form holding x in field slot.field; the other fields
\* hold what the grammar requires: a plain name, "pass", one generator, one
\* with-item
MakeForm(slot, x) ==
    LET fs == FieldsOf(slot.form)
        fill(r) == IF r.field = slot.field THEN <<x>>
                   ELSE IF r.arity = "one" THEN <<Name("c")>>
                   ELSE IF r.field = "body" THEN <<Pass>>
                   ELSE IF r.field = "targets" THEN <<Name("c")>>
                   ELSE IF r.field = "generators" THEN <<plainComprehension>>
                   ELSE IF r.field = "items" THEN <<plainWithitem>>
                   ELSE << >>
    IN  Node(slot.form,
             [f \in {r.field : r \in fs} |->
                 fill(CHOOSE r \in fs : r.field = f)])


(***************************************************************************)
(* Well-formed syntax trees up to a nesting depth: what a field of a given *)
(* type can hold.  The innermost nodes are an import statement of either   *)
(* form or an attribute access on a plain identifier.                      *)
(***************************************************************************)
leafImport == Import(<<alias(<<"pkg">>, "alias")>>)
leafImportFrom == ImportFrom(<<"pkg">>, <<alias(<<"helper">>, "")>>)
leafAttribute == Attribute(Name("alias"), "extra")

LeafOf(type) ==
    CASE type = "stmt" -> {leafImport, leafImportFrom}
      [] type = "expr" -> {leafAttribute}
      [] OTHER -> {}

RECURSIVE Trees(_, _)
Trees(type, depth) ==
    LeafOf(type) \cup
    IF depth = 0 THEN {}
    ELSE UNION { {MakeForm(slot, x) : x \in Trees(slot.type, depth - 1)} :
                 slot \in {r \in FormFields : r.cls = type} }

RECURSIVE Descendants(_)
Descendants(n) == {n} \cup UNION {Descendants(c) : c \in Children(n)}

\* the nodes the collector is meant to pick up
IsUsageLeaf(n) ==
    \/ n.kind \in {"Import", "ImportFrom"}
    \/ n.kind = "Attribute" /\ n.ch.value[1].kind = "Name"

(***************************************************************************)
(* The module resolver.                                                    *)
(***************************************************************************)
\* a few of sys.stdlib_module_names
stdlib_module_names == {"os", "sys"}
\* [tool.import-analyzer] exclude_toplevel_module of pyproject.toml
exclude_toplevel_module == {"vendored"}

\* os.path.split: (head, tail) around the last separator
split(path) ==
    IF path = << >> THEN << << >>, << >> >>
    ELSE <<SubSeq(path, 1, Len(path) - 1), <<path[Len(path)]>> >>

\* os.path.join of relative paths
RECURSIVE join(_)
join(paths) ==
    IF paths = << >> THEN << >> ELSE Head(paths) \o join(Tail(paths))

\* path + ext
WithExt(path, ext) == [path EXCEPT ![Len(path)] = @ \o ext]

\* a file system below rootDir: fs.files and fs.dirs are sets of paths
isdir(fs, path) == path \in fs.dirs
isfile(fs, path) == path \in fs.files

\* what os.walk gives for directory d: (subDirs, files)
subDirsOf(fs, d) ==
    {p[Len(p)] : p \in {q \in fs.dirs : q # << >> /\ split(q)[1] = d}}
filesOf(fs, d) ==
    {p[Len(p)] : p \in {q \in fs.files : split(q)[1] = d}}

moduleFilePath(fs, module, dirPathRel, subDirs, files) ==
    IF module = << >> THEN None
    ELSE
    LET main == module[1]
    IN  IF main \in stdlib_module_names THEN None
        ELSE IF main \in exclude_toplevel_module THEN None
        ELSE
        LET parts == IF \/ main \in files
                        \/ (main \o ".py") \in files
                        \/ main \in subDirs
                     THEN join(split(dirPathRel)) \o module
                     ELSE module
            pathRel == parts
        IN  IF isdir(fs, pathRel)
            THEN IF isfile(fs, pathRel \o <<"__init__.py">>)
                 THEN pathRel \o <<"__init__.py">>
                 ELSE None
            ELSE IF isfile(fs, WithExt(pathRel, ".py"))
            THEN WithExt(pathRel, ".py")
            ELSE None


(***************************************************************************)
(* The variables of the run while only the resolver or only the traversal  *)
(* is exercised: the script has not been started.                          *)
(***************************************************************************)
NoFs == [files |-> {}, dirs |-> {}]

RunIdle ==
    /\ tree = << >>
    /\ dirs = {}
    /\ cwd = "root"
    /\ cwdTree = << >>
    /\ pc = "idle"
    /\ error = << >>
    /\ walkDirs = << >>
    /\ walkFiles = {}
    /\ imported_from_by_module_path = << >>
    /\ all_module_attr_access = {}
    /\ diag = {}
    /\ checkList = << >>
    /\ idx = 0
    /\ skipAllAdd = {}
    /\ modifiedFiles = {}
    /\ unusedReport = {}
    /\ addReport = {}
    /\ editor = "none"
    /\ editorArgs = {}
    /\ passNo = 0
    /\ treeAtStart = << >>

NoQuery == [fs |-> NoFs, module |-> << >>, dirPathRel |-> << >>]

(***************************************************************************)
(* SpecResolve: moduleFilePath applied to one reference made from the      *)
(* root directory or from app/, over every file system built from the      *)
(* paths below.                                                            *)
(***************************************************************************)
ResolveFiles ==
    { <<"pkg.py">>, <<"pkg", "__init__.py">>, <<"pkg", "util.py">>,
      <<"app", "pkg.py">>, <<"app", "pkg">>, <<"app", "pkg", "__init__.py">>,
      <<"app", "pkg", "util.py">> }
ResolveDirs == { <<"pkg">>, <<"app", "pkg">> }
ResolveModules ==
    { <<"pkg">>, <<"pkg", "util">>, <<"os">>, <<"vendored">>, <<"other">>,
      << >> }

\* every file lies in an existing directory; a path is a file or a directory
FsConsistent(fs) ==
    /\ \A f \in fs.files : split(f)[1] \in fs.dirs
    /\ fs.files \cap fs.dirs = {}

ResolveFileSystems ==
    { fs \in [files : SUBSET ResolveFiles,
              dirs : {d \cup {<< >>, <<"app">>} : d \in SUBSET ResolveDirs}] :
        FsConsistent(fs) }

InitResolve ==
    /\ RunIdle
    /\ stmTree = Pass
    /\ leaves = None
    /\ query \in [fs : ResolveFileSystems, module : ResolveModules,
                  dirPathRel : {<< >>, <<"app">>}]
    /\ resolved = <<"pending">>

Resolve ==
    /\ resolved = <<"pending">>
    /\ resolved' = moduleFilePath(query.fs, query.module, query.dirPathRel,
                                  subDirsOf(query.fs, query.dirPathRel),
                                  filesOf(query.fs, query.dirPathRel))
    /\ UNCHANGED <<runVars, query, stmTree, leaves>>

NextResolve == Resolve

SpecResolve == InitResolve /\ [][NextResolve]_vars

(***************************************************************************)
(* SpecCollect: the traversal applied to one statement of a module body.   *)
(***************************************************************************)
InitCollect ==
    /\ RunIdle
    /\ query = NoQuery
    /\ resolved = None
    /\ stmTree \in Trees("stmt", MaxDepth)
    /\ leaves = None

\* processFile, the loop over code.body, for a body of one statement
Traverse ==
    /\ leaves = None
    /\ leaves' = <<"visited", handleStatement(stmTree)>>
    /\ UNCHANGED <<runVars, query, resolved, stmTree>>

NextCollect == Traverse

SpecCollect == InitCollect /\ [][NextCollect]_vars


(***************************************************************************)
(* The run of the script on a tree.                                        *)
(***************************************************************************)
\* [tool.import-analyzer] exclude of pyproject.toml: root-relative prefixes
re_exclude_list == { <<"legacy">> }

IsPrefix(p, q) == Len(p) <= Len(q) /\ SubSeq(q, 1, Len(p)) = p

is_excluded(fpath) == \E pat \in re_exclude_list : IsPrefix(pat, fpath)

\* f with f[k] = v
Put(f, k, v) == [x \in DOMAIN f \cup {k} |-> IF x = k THEN v ELSE f[x]]

\* the enumerations of a finite set (list(a_set) has no set order)
SeqsOf(S) == {q \in [1..Cardinality(S) -> S] : Range(q) = S}

\* the tree as moduleFilePath's isdir / isfile (below rootDir) see it
TreeFs == [files |-> DOMAIN tree, dirs |-> dirs]

\* the files and directories a path relative to the working directory
\* reaches: the tree when the script runs in rootDir, a second checkout with
\* the same layout ("mirror"), or a directory holding none of them ("empty")
CwdFs ==
    CASE cwd = "root" -> TreeFs
      [] cwd = "mirror" -> [files |-> DOMAIN cwdTree, dirs |-> dirs]
      [] OTHER -> NoFs

\* the names handed to moduleFilePath while directory d is walked
Ctx(d) ==
    [fs |-> TreeFs, dirPathRel |-> d, subDirs |-> subDirsOf(TreeFs, d),
     files |-> filesOf(TreeFs, d)]

Resolved(module, ctx) ==
    moduleFilePath(ctx.fs, module, ctx.dirPathRel, ctx.subDirs, ctx.files)

\* handleImport: the loop over stm.names, on imports_by_name
RECURSIVE handleImport(_, _, _)
handleImport(names, imports_by_name, ctx) ==
    IF names = << >> THEN imports_by_name
    ELSE
    LET name == Head(names)
        module_fpath == Resolved(name.name, ctx)
        bound ==
            IF module_fpath = None THEN imports_by_name
            ELSE IF name.asname # ""
            THEN Put(imports_by_name, <<name.asname>>,
                     <<name.name, module_fpath>>)
            ELSE Put(imports_by_name, name.name, <<name.name, module_fpath>>)
    IN  handleImport(Tail(names), bound, ctx)

\* handleImportFrom: the loop over stm.names, on imports_by_name
RECURSIVE bindImportFrom(_, _, _, _)
bindImportFrom(names, module, imports_by_name, ctx) ==
    IF names = << >> THEN imports_by_name
    ELSE
    LET name == Head(names)
        full_name == module \o name.name
        tmp_module_fpath == Resolved(full_name, ctx)
        bound ==
            IF name.name = << >> THEN imports_by_name
            ELSE IF name.asname # ""
            THEN Put(imports_by_name, <<name.asname>>,
                     <<full_name, tmp_module_fpath>>)
            ELSE Put(imports_by_name, name.name,
                     <<full_name, tmp_module_fpath>>)
    IN  bindImportFrom(Tail(names), module, bound, ctx)

\* st: [imports_by_name, froms (imported_from_by_module_path), attr_access]
handleImportFrom(stm, st, ctx) ==
    LET module == IF stm.module = << >> THEN ctx.dirPathRel ELSE stm.module
        module_fpath == Resolved(module, ctx)
        before == IF module_fpath \in DOMAIN st.froms
                  THEN st.froms[module_fpath] ELSE {}
        added == {stm.names[i].name[1] :
                    i \in {j \in DOMAIN stm.names :
                             stm.names[j].name # << >>}}
    IN  IF module_fpath = None THEN st
        ELSE [st EXCEPT
                !.froms = Put(@, module_fpath, before \cup added),
                !.imports_by_name =
                    bindImportFrom(stm.names, module, @, ctx)]

\* the effect of the visited nodes, in the order of the visit
RECURSIVE collect(_, _, _)
collect(visited, st, ctx) ==
    IF visited = << >> THEN st
    ELSE
    LET n == Head(visited)
        next ==
            CASE n.kind = "Import" ->
                    [st EXCEPT !.imports_by_name =
                                  handleImport(n.names, @, ctx)]
              [] n.kind = "ImportFrom" -> handleImportFrom(n, st, ctx)
              [] OTHER ->
                    [st EXCEPT !.attr_access =
                                  @ \cup {<<n.ch.value[1].id, n.attr>>}]
    IN  collect(Tail(visited), next, ctx)

\* the (attr, module_fpath) pairs processFile adds to all_module_attr_access
resolveAttrAccess(attr_access, imports_by_name) ==
    { <<a[2], imports_by_name[<<a[1]>>][2]>> :
        a \in {b \in attr_access :
                 /\ b[1] \notin {"self", "msg"}
                 /\ <<b[1]>> \in DOMAIN imports_by_name} }

\* processFile on a file that was read and parsed
processFile(fpathRel, froms) ==
    LET ctx == Ctx(split(fpathRel)[1])
        st == collect(handleStatementList(tree[fpathRel].body),
                      [imports_by_name |-> << >>, froms |-> froms,
                       attr_access |-> {}],
                      ctx)
    IN  [froms |-> st.froms,
         attrs |-> resolveAttrAccess(st.attr_access, st.imports_by_name)]

\* module_attr_access_by_fpath.get(module_fpath), {} for None
module_attr_access_by_fpath(module_fpath) ==
    {a[1] : a \in {b \in all_module_attr_access : b[2] = module_fpath}}

to_check_imported_modules ==
    DOMAIN imported_from_by_module_path
        \cup {a[2] : a \in {b \in all_module_attr_access : b[2] # None}}

\* the order of sorted() on the paths of the tree
PathOrder ==
    << <<"legacy", "old.py">>, <<"main.py">>, <<"pkg", "__init__.py">>,
       <<"pkg", "util.py">> >>

sorted(S) ==
    LET pos(p) == CHOOSE i \in DOMAIN PathOrder : PathOrder[i] = p
    IN  CHOOSE q \in SeqsOf(S) :
            \A i, j \in DOMAIN q : i < j => pos(q[i]) < pos(q[j])

IsAllDecl(stm) ==
    /\ stm.kind = "Assign"
    /\ stm.ch.targets[1].kind = "Name"
    /\ stm.ch.targets[1].id = "__all__"

AssertionError == [kind |-> "AssertionError", all |-> << >>]

\* as find__all__, but a declaration that fails an assertion is passed over
find__all__Lenient(body) ==
    LET ok(stm) ==
            /\ IsAllDecl(stm)
            /\ stm.ch.value[1].kind = "List"
            /\ Len(stm.ch.targets) = 1
            /\ \A e \in Range(stm.ch.value[1].ch.elts) : e.kind = "Constant"
        hits == {i \in DOMAIN body : ok(body[i])}
    IN  IF hits = {} THEN [kind |-> "none", all |-> << >>]
        ELSE
        LET elts == body[CHOOSE i \in hits : \A j \in hits : i <= j]
                        .ch.value[1].ch.elts
        IN  [kind |-> "found", all |-> [i \in DOMAIN elts |-> elts[i].id]]

find__all__(body) ==
    LET hits == {i \in DOMAIN body : IsAllDecl(body[i])}
    IN  IF hits = {} THEN [kind |-> "none", all |-> << >>]
        ELSE
        LET stm == body[CHOOSE i \in hits : \A j \in hits : i <= j]
            value == stm.ch.value[1]
        IN  IF value.kind # "List" THEN AssertionError
            ELSE IF Len(stm.ch.targets) # 1 THEN AssertionError
            ELSE IF \E e \in Range(value.ch.elts) : e.kind # "Constant"
            THEN AssertionError
            ELSE [kind |-> "found",
                  all |-> [i \in DOMAIN value.ch.elts |->
                              value.ch.elts[i].id]]

slashDunderInit(module_fpath) ==
    Len(module_fpath) > 1 /\ module_fpath[Len(module_fpath)] = "__init__.py"

\* dirname(module_fpath) joined with name
moduleDirName(module_fpath, name) == split(module_fpath)[1] \o <<name>>

\* the names of names1 the loop skips (and records in skipAllAdd)
shadowSkipped(module_fpath, names1) ==
    { name \in names1 :
        /\ slashDunderInit(module_fpath)
        /\ \/ isfile(CwdFs, WithExt(moduleDirName(module_fpath, name), ".py"))
           \/ isdir(CwdFs, moduleDirName(module_fpath, name)) }

names1Of(module_fpath) ==
    IF module_fpath \in DOMAIN imported_from_by_module_path
    THEN imported_from_by_module_path[module_fpath] ELSE {}

\* _all_set when the reconcile loop has gone through names1 and names2
requiredSet(module_fpath, _all_set_current) ==
    ((_all_set_current
        \cup (names1Of(module_fpath)
                \ shadowSkipped(module_fpath, names1Of(module_fpath)))
        \cup module_attr_access_by_fpath(module_fpath)) \ {"*"})

\* as unusedSet, with used_set = set(names1) only
unusedSetFromImportsOnly(module_fpath, _all_set_current) ==
    _all_set_current \ names1Of(module_fpath)

unusedSet(module_fpath, _all_set_current) ==
    _all_set_current
        \ (names1Of(module_fpath)
             \cup module_attr_access_by_fpath(module_fpath))

\* the statement  __all__ = [...]  with the names in the given order
allDecl(add_list) ==
    Assign(<<Name("__all__")>>,
           List([i \in DOMAIN add_list |-> Constant(add_list[i])]))


(***************************************************************************)
(* The trees the script is run on:                                         *)
(*     main.py            the importing file                               *)
(*     pkg/__init__.py    a package, with or without __all__               *)
(*     pkg/util.py        a module without __all__, with imports of its    *)
(*                        own                                              *)
(*     pkg/sub/           a subpackage directory                           *)
(*     legacy/old.py      a file under an excluded prefix                  *)
(***************************************************************************)
mainPy == <<"main.py">>
initPy == <<"pkg", "__init__.py">>
utilPy == <<"pkg", "util.py">>
legacyPy == <<"legacy", "old.py">>
subDir == <<"pkg", "sub">>

File(status, body) == [status |-> status, body |-> body]

from(module, name) == ImportFrom(module, <<alias(<<name>>, "")>>)
importAs(module, asname) == Import(<<alias(module, asname)>>)
access(id, attr) == Expr(Attribute(Name(id), attr))
declare(names) ==
    Assign(<<Name("__all__")>>,
           List([i \in DOMAIN names |-> Constant(names[i])]))

\* the statements main.py is made of, in this order
MainStatements ==
    << from(<<"pkg">>, "helper"),
       from(<<"pkg", "util">>, "thing"),
       importAs(<<"pkg">>, "alias"),
       access("alias", "extra"),
       from(<<"pkg">>, "sub"),
       access("alias", "sub"),
       from(<<"pkg">>, "*"),
       If(Name("c"), <<Pass>>, <<from(<<"pkg">>, "late")>>),
       FunctionDef(<<importAs(<<"pkg">>, "msg"), access("msg", "text")>>) >>

\* the statements of MainStatements at the positions S, in order
RECURSIVE Pick(_, _)
Pick(S, i) ==
    IF i > Len(MainStatements) THEN << >>
    ELSE (IF i \in S THEN <<MainStatements[i]>> ELSE << >>) \o Pick(S, i + 1)

MainFiles ==
    { File("ok", Pick(S, 1)) :
        S \in {T \in SUBSET DOMAIN MainStatements :
                 Cardinality(T) <= MaxStmts} }
      \cup {File("unparseable", << >>), File("unreadable", << >>)}

InitFiles ==
    { File("ok", << >>),
      File("ok", <<declare(<<"helper">>)>>),
      File("ok", <<declare(<<"helper", "extra">>)>>),
      File("ok", <<declare(<<"helper", "spare">>)>>),
      \* __all__ = ("helper",)
      File("ok", <<Assign(<<Name("__all__")>>,
                          Tuple(<<Constant("helper")>>))>>),
      \* __all__ = ["helper", spare]
      File("ok", <<Assign(<<Name("__all__")>>,
                          List(<<Constant("helper"), Name("spare")>>))>>),
      \* __all__ = exported = ["helper"]
      File("ok", <<Assign(<<Name("__all__"), Name("exported")>>,
                          List(<<Constant("helper")>>))>>),
      \* two declarations
      File("ok", <<declare(<<"helper">>), declare(<<"extra">>)>>),
      File("unparseable", << >>),
      File("unreadable", << >>) }

\* pkg/util.py: no __all__; it imports from the excluded file
UtilFile == File("ok", <<from(<<"legacy", "old">>, "gone")>>)

Tree(main, init) ==
    [p \in {mainPy, initPy, utilPy, legacyPy} |->
        CASE p = mainPy -> main
          [] p = initPy -> init
          [] p = utilPy -> UtilFile
          [] OTHER -> File("ok", <<from(<<"pkg">>, "old")>>)]

Init ==
    /\ query = NoQuery
    /\ resolved = None
    /\ stmTree = Pass
    /\ leaves = None
    /\ \E main \in MainFiles, init \in InitFiles :
            tree = Tree(main, init)
    /\ dirs = {<< >>, <<"pkg">>, <<"legacy">>, subDir}
    /\ cwd \in {"root", "mirror", "empty"}
    /\ cwdTree = IF cwd = "mirror" THEN tree ELSE << >>
    /\ pc = "walk"
    /\ error = << >>
    /\ walkDirs = << << >> >>
    /\ walkFiles = {}
    /\ imported_from_by_module_path = << >>
    /\ all_module_attr_access = {}
    /\ diag = {}
    /\ checkList = << >>
    /\ idx = 0
    /\ skipAllAdd = {}
    /\ modifiedFiles = {}
    /\ unusedReport = {}
    /\ addReport = {}
    /\ editor = "none"
    /\ editorArgs = {}
    /\ passNo = 1
    /\ treeAtStart = tree

pureVars == <<query, resolved, stmTree, leaves>>

\* an uncaught exception ends the run
Raise(kind, fpath) ==
    /\ pc' = "crashed"
    /\ error' = <<kind, fpath>>

\* os.walk yields the next directory: its files are processed next, its
\* subdirectories are walked after it
WalkDir ==
    /\ pc = "walk"
    /\ walkFiles = {}
    /\ walkDirs # << >>
    /\ LET d == Head(walkDirs)
       IN  /\ walkFiles' = {f \in DOMAIN tree : split(f)[1] = d}
           /\ \E below \in SeqsOf({q \in dirs : q # << >> /\ split(q)[1] = d}) :
                 walkDirs' = below \o Tail(walkDirs)
    /\ UNCHANGED <<tree, dirs, cwd, cwdTree, pc, error,
                   imported_from_by_module_path, all_module_attr_access, diag,
                   checkList, idx, skipAllAdd, modifiedFiles, unusedReport,
                   addReport, editor, editorArgs, passNo, treeAtStart,
                   pureVars>>

\* processFile(dirPathRel, fname, subDirs) for one file of the directory
ProcessFile ==
    /\ pc = "walk"
    /\ \E fpathRel \in walkFiles :
        /\ walkFiles' = walkFiles \ {fpathRel}
        /\ IF is_excluded(fpathRel)
           THEN UNCHANGED <<pc, error, imported_from_by_module_path,
                            all_module_attr_access, diag>>
           ELSE IF tree[fpathRel].status = "unreadable"
           THEN /\ Raise("OSError", fpathRel)
                /\ UNCHANGED <<imported_from_by_module_path,
                               all_module_attr_access, diag>>
           ELSE IF tree[fpathRel].status = "unparseable"
           THEN /\ diag' = diag \cup {fpathRel}
                /\ UNCHANGED <<pc, error, imported_from_by_module_path,
                               all_module_attr_access>>
           ELSE LET r == processFile(fpathRel, imported_from_by_module_path)
                IN  /\ imported_from_by_module_path' = r.froms
                    /\ all_module_attr_access' =
                            all_module_attr_access \cup r.attrs
                    /\ UNCHANGED <<pc, error, diag>>
    /\ UNCHANGED <<tree, dirs, cwd, cwdTree, walkDirs, checkList, idx,
                   skipAllAdd, modifiedFiles, unusedReport, addReport, editor,
                   editorArgs, passNo, treeAtStart, pureVars>>

\* the walk is over: to_check_imported_modules, module_attr_access_by_fpath
Aggregate ==
    /\ pc = "walk"
    /\ walkFiles = {}
    /\ walkDirs = << >>
    /\ checkList' = sorted(to_check_imported_modules)
    /\ idx' = 0
    /\ pc' = IF to_check_imported_modules = {} THEN "launch" ELSE "reconcile"
    /\ UNCHANGED <<tree, dirs, cwd, cwdTree, error, walkDirs, walkFiles,
                   imported_from_by_module_path, all_module_attr_access, diag,
                   skipAllAdd, modifiedFiles, unusedReport, addReport, editor,
                   editorArgs, passNo, treeAtStart, pureVars>>


\* the reconcile loop goes on to the next module_fpath
Continue ==
    /\ idx' = idx + 1
    /\ pc' = IF idx + 1 = Len(checkList) THEN "launch" ELSE "reconcile"
    /\ error' = error

\* one iteration of the loop over sorted(to_check_imported_modules)
Reconcile ==
    /\ pc = "reconcile"
    /\ idx < Len(checkList)
    /\ LET module_fpath == checkList[idx + 1]
           file == tree[module_fpath]
           found == find__all__(file.body)
           has_all == found.kind = "found"
           _all_set_current == Range(found.all)
           names1 == names1Of(module_fpath)
           _all_set == requiredSet(module_fpath, _all_set_current)
           unused_set == unusedSet(module_fpath, _all_set_current)
           add_set == _all_set \ _all_set_current
           same == <<tree, cwdTree, diag, skipAllAdd, modifiedFiles,
                     unusedReport, addReport>>
       IN  IF file.status = "unreadable"
           THEN Raise("OSError", module_fpath) /\ idx' = idx + 1
                    /\ UNCHANGED same
           ELSE IF \/ is_excluded(module_fpath)
                   \/ module_fpath[1] \in exclude_toplevel_module
           THEN Continue /\ UNCHANGED same
           ELSE IF file.status = "unparseable"
           THEN /\ Continue
                /\ diag' = diag \cup {module_fpath}
                /\ UNCHANGED <<tree, cwdTree, skipAllAdd, modifiedFiles,
                               unusedReport, addReport>>
           ELSE IF found.kind = "AssertionError"
           THEN Raise("AssertionError", module_fpath) /\ idx' = idx + 1
                    /\ UNCHANGED same
           ELSE
           /\ diag' = diag
           /\ skipAllAdd' = skipAllAdd \cup
                {<<module_fpath, name>> :
                    name \in shadowSkipped(module_fpath, names1)}
           /\ IF _all_set = {}
              THEN Continue /\ UNCHANGED <<tree, cwdTree, modifiedFiles,
                                           unusedReport, addReport>>
              ELSE
              /\ unusedReport' =
                    IF has_all
                    THEN unusedReport \cup
                            {<<module_fpath, symbol>> : symbol \in unused_set}
                    ELSE unusedReport
              /\ IF Cardinality(_all_set) = Cardinality(_all_set_current)
                 THEN Continue /\ UNCHANGED <<tree, cwdTree, modifiedFiles,
                                              addReport>>
                 ELSE IF has_all
                 THEN /\ addReport' = addReport \cup {<<module_fpath, add_set>>}
                      /\ Continue
                      /\ UNCHANGED <<tree, cwdTree, modifiedFiles>>
                 \* modifyAndOpenFiles: open(module_fpath), a relative path
                 ELSE IF ~isfile(CwdFs, module_fpath)
                 THEN /\ Raise("FileNotFoundError", module_fpath)
                      /\ idx' = idx + 1
                      /\ UNCHANGED <<tree, cwdTree, modifiedFiles, addReport>>
                 ELSE
                 /\ \E add_list \in SeqsOf(add_set) :
                        IF cwd = "root"
                        THEN /\ tree' = [tree EXCEPT ![module_fpath].body =
                                            <<allDecl(add_list)>> \o @]
                             /\ cwdTree' = cwdTree
                        ELSE /\ cwdTree' =
                                    [cwdTree EXCEPT ![module_fpath].body =
                                        <<allDecl(add_list)>> \o @]
                             /\ tree' = tree
                 /\ modifiedFiles' = modifiedFiles \cup {module_fpath}
                 /\ addReport' = addReport
                 /\ Continue
    /\ UNCHANGED <<dirs, cwd, walkDirs, walkFiles,
                   imported_from_by_module_path, all_module_attr_access,
                   checkList, editor, editorArgs, passNo, treeAtStart,
                   pureVars>>

\* "if modifiedFiles:" is false: the script ends
Finish ==
    /\ pc = "launch"
    /\ modifiedFiles = {}
    /\ pc' = "done"
    /\ UNCHANGED <<tree, dirs, cwd, cwdTree, error, walkDirs, walkFiles,
                   imported_from_by_module_path, all_module_attr_access, diag,
                   checkList, idx, skipAllAdd, modifiedFiles, unusedReport,
                   addReport, editor, editorArgs, passNo, treeAtStart,
                   pureVars>>

\* subprocess.call(cmd) starts the editor on join(rootDir, p) for the
\* modified files and waits for it
LaunchEditor ==
    /\ pc = "launch"
    /\ modifiedFiles # {}
    /\ editor' = "running"
    /\ editorArgs' = {<<"rootDir">> \o p : p \in modifiedFiles}
    /\ pc' = "wait"
    /\ UNCHANGED <<tree, dirs, cwd, cwdTree, error, walkDirs, walkFiles,
                   imported_from_by_module_path, all_module_attr_access, diag,
                   checkList, idx, skipAllAdd, modifiedFiles, unusedReport,
                   addReport, passNo, treeAtStart, pureVars>>

\* subprocess.call(cmd) raises: the editor command cannot be started
EditorMissing ==
    /\ pc = "launch"
    /\ modifiedFiles # {}
    /\ Raise("FileNotFoundError", <<"editor">>)
    /\ UNCHANGED <<tree, dirs, cwd, cwdTree, walkDirs, walkFiles,
                   imported_from_by_module_path, all_module_attr_access, diag,
                   checkList, idx, skipAllAdd, modifiedFiles, unusedReport,
                   addReport, editor, editorArgs, passNo, treeAtStart,
                   pureVars>>

\* the editor process exits, subprocess.call returns, the script ends
EditorExit ==
    /\ pc = "wait"
    /\ editor = "running"
    /\ editor' = "exited"
    /\ pc' = "done"
    /\ UNCHANGED <<tree, dirs, cwd, cwdTree, error, walkDirs, walkFiles,
                   imported_from_by_module_path, all_module_attr_access, diag,
                   checkList, idx, skipAllAdd, modifiedFiles, unusedReport,
                   addReport, editorArgs, passNo, treeAtStart, pureVars>>

\* the script is started again, in the same place, on the tree as it is now
Rerun ==
    /\ pc = "done"
    /\ passNo < MaxPasses
    /\ passNo' = passNo + 1
    /\ treeAtStart' = tree
    /\ pc' = "walk"
    /\ walkDirs' = << << >> >>
    /\ walkFiles' = {}
    /\ imported_from_by_module_path' = << >>
    /\ all_module_attr_access' = {}
    /\ diag' = {}
    /\ checkList' = << >>
    /\ idx' = 0
    /\ skipAllAdd' = {}
    /\ modifiedFiles' = {}
    /\ unusedReport' = {}
    /\ addReport' = {}
    /\ editor' = "none"
    /\ editorArgs' = {}
    /\ UNCHANGED <<tree, dirs, cwd, cwdTree, error, pureVars>>

Next ==
    \/ WalkDir
    \/ ProcessFile
    \/ Aggregate
    \/ Reconcile
    \/ Finish
    \/ LaunchEditor
    \/ EditorMissing
    \/ EditorExit
    \/ Rerun

Spec == Init /\ [][Next]_vars


(***************************************************************************)
(* What the claims speak about.                                            *)
(***************************************************************************)
\* the reconcile loop has started its iteration for f
Attempted(f) == \E i \in 1..idx : checkList[i] = f

\* ... and has gone through it without an exception
Reconciled(f) == Attempted(f) /\ ~(pc = "crashed" /\ error[2] = f)

\* a candidate the loop does not skip: not excluded, readable, parses
Reconcilable(f) ==
    /\ ~is_excluded(f)
    /\ f[1] \notin exclude_toplevel_module
    /\ treeAtStart[f].status = "ok"

\* the names of the export list a file declares ({} when it declares none)
HasAll(file) == \E i \in DOMAIN file.body : IsAllDecl(file.body[i])
FirstDecl(file) ==
    file.body[CHOOSE i \in DOMAIN file.body :
                /\ IsAllDecl(file.body[i])
                /\ \A j \in 1..(i - 1) : ~IsAllDecl(file.body[j])]
Declared(file) ==
    IF HasAll(file)
    THEN {e.id : e \in Range(FirstDecl(file).ch.value[1].ch.elts)}
    ELSE {}

N1(f) == names1Of(f)
N2(f) == module_attr_access_by_fpath(f)
Skipped(f) == {a[2] : a \in {b \in skipAllAdd : b[1] = f}}


\* C1: round trip.  A candidate file that is not excluded, parses and declares no
\* __all__ is left by one reconcile pass with an export list whose names are
\* exactly (N1 \cup N2) minus "*" minus the package-shadow-skipped names, and
\* is marked as modified whenever that set is not empty.
RoundTrip ==
    \A f \in DOMAIN tree :
        (Reconciled(f) /\ Reconcilable(f) /\ ~HasAll(treeAtStart[f])) =>
            LET want == ((N1(f) \cup N2(f)) \ {"*"}) \ Skipped(f)
            IN  /\ Declared(tree[f]) = want
                /\ want # {} => f \in modifiedFiles

\* every declared export list is exactly the usage of its file
ConsistentTree ==
    /\ pc \in {"reconcile", "launch", "wait", "done"}
    /\ \A f \in Range(checkList) :
            Reconcilable(f) => Declared(treeAtStart[f]) = N1(f) \cup N2(f)

\* C2: idempotence.  A pass run on the tree a previous complete pass left, or
\* on a tree in which every declared export list is exactly the usage of its
\* file, modifies nothing: modifiedFiles stays empty and no file of the tree
\* changes.
Idempotence ==
    (passNo > 1 \/ ConsistentTree) =>
        /\ modifiedFiles = {}
        /\ tree = treeAtStart

\* C3: package-shadow exception.  A name imported-from a package-init file that
\* is also a sibling submodule (name.py) or subpackage directory appears
\* neither in the synthesized export list nor in an "ADD to __all__"
\* suggestion, whatever other usage of the package there is.
PackageShadow ==
    \A f \in DOMAIN tree :
        (Reconciled(f) /\ Reconcilable(f) /\ slashDunderInit(f)) =>
            \A name \in N1(f) :
                (\/ isfile(TreeFs, WithExt(moduleDirName(f, name), ".py"))
                 \/ isdir(TreeFs, moduleDirName(f, name))) =>
                    /\ ~HasAll(treeAtStart[f]) => name \notin Declared(tree[f])
                    /\ \A r \in addReport : r[1] = f => name \notin r[2]

\* C4: unused-symbol detection.  For a candidate file that is not excluded and
\* declares an export list D, the pass reports as unused exactly the names of
\* D that are neither imported-from the file nor accessed as attributes of
\* it, and it leaves the file and D as they were.
UnusedDetection ==
    \A f \in DOMAIN tree :
        (Reconcilable(f) /\ HasAll(treeAtStart[f])) =>
            /\ tree[f] = treeAtStart[f]
            /\ f \notin modifiedFiles
            /\ cwd = "mirror" => cwdTree[f] = treeAtStart[f]
            /\ Reconciled(f) =>
                  {r[2] : r \in {u \in unusedReport : u[1] = f}}
                      = Declared(treeAtStart[f]) \ (N1(f) \cup N2(f))

\* a pass ended having reported "spare" of __all__ = ["helper", "spare"] as
\* unused, "helper" being imported from the package
UnusedDetectionWitness ==
    /\ pc = "done"
    /\ Declared(treeAtStart[initPy]) = {"helper", "spare"}
    /\ "helper" \in N1(initPy)
    /\ unusedReport = {<<initPy, "spare">>}
    /\ tree[initPy] = treeAtStart[initPy]

\* the walk has gone through f, which is not excluded and parses
Collected(f) ==
    /\ ~is_excluded(f)
    /\ treeAtStart[f].status = "ok"
    /\ pc \in {"reconcile", "launch", "wait", "done"}

\* in a file, every "from X import A" credits A to the resolved file of X and
\* every attribute access Z.attr on a name bound by "import X as Z" credits
\* attr to the resolved file of X
Attribution ==
    \A f \in DOMAIN tree : (Collected(f) /\ passNo = 1) =>
        LET ctx == Ctx(split(f)[1])
            nodes == UNION {Descendants(treeAtStart[f].body[i]) :
                               i \in DOMAIN treeAtStart[f].body}
        IN  /\ \A n \in {m \in nodes : m.kind = "ImportFrom"} :
                  Resolved(n.module, ctx) # None =>
                      \A i \in DOMAIN n.names :
                          n.names[i].name[1] \in N1(Resolved(n.module, ctx))
            /\ \A n \in {m \in nodes : m.kind = "Import"} :
                  \A i \in DOMAIN n.names :
                      \A a \in {m \in nodes : IsUsageLeaf(m)
                                              /\ m.kind = "Attribute"} :
                          (/\ n.names[i].asname # ""
                           /\ a.ch.value[1].id = n.names[i].asname
                           /\ Resolved(n.names[i].name, ctx) # None) =>
                              a.attr \in N2(Resolved(n.names[i].name, ctx))

\* pkg/__init__ and pkg/util without __all__, main.py doing
\* "from pkg import helper", "from pkg.util import thing",
\* "import pkg as alias" and "alias.extra"
EndToEndScenario ==
    (/\ pc = "done"
     /\ passNo = 1
     /\ treeAtStart[mainPy] = File("ok", Pick({1, 2, 3, 4}, 1))
     /\ treeAtStart[initPy] = File("ok", << >>)) =>
        /\ Declared(tree[initPy]) = {"helper", "extra"}
        /\ Declared(tree[utilPy]) = {"thing"}

\* C6: end-to-end attribution.  Every from-import and every attribute access
\* on an import alias of a file is credited to the resolved file of the
\* module it names, and in the scenario of pkg/__init__, pkg/util and main.py
\* the run synthesizes exactly {helper, extra} for pkg/__init__ and exactly
\* {thing} for pkg/util.
EndToEnd == Attribution /\ EndToEndScenario

\* the top-level declarations of __all__ of a file
AllDecls(file) == {i \in DOMAIN file.body : IsAllDecl(file.body[i])}

\* the value of a declaration is a literal sequence of constants
LiteralSequence(stm) ==
    /\ stm.ch.value[1].kind \in {"List", "Tuple"}
    /\ \A e \in Range(stm.ch.value[1].ch.elts) : e.kind = "Constant"

\* the run has ended in the reconciliation of f, with no editor started
FatalAt(f) ==
    /\ pc = "crashed"
    /\ error = <<"AssertionError", f>>
    /\ checkList[idx] = f
    /\ editor = "none"

FirstDeclMalformed(file) ==
    /\ HasAll(file)
    /\ \/ FirstDecl(file).ch.value[1].kind # "List"
       \/ \E e \in Range(FirstDecl(file).ch.value[1].ch.elts) :
               e.kind # "Constant"
       \/ Len(FirstDecl(file).ch.targets) > 1

FailureIsolation ==
    \A f \in DOMAIN tree :
        (tree[f].status # "ok" /\ ~is_excluded(f)) =>
            /\ ~(pc = "crashed" /\ error[2] = f)
            /\ tree[f] = treeAtStart[f]
            /\ Attempted(f) => f \in diag

\* the editor is started only after every candidate has been processed,
\* exactly when a file was modified, on the absolute paths of the modified
\* files
EditorLaunchedRight ==
    /\ editor # "none" =>
            /\ idx = Len(checkList)
            /\ modifiedFiles # {}
            /\ editorArgs = {<<"rootDir">> \o f : f \in modifiedFiles}
    /\ pc = "done" => (editor # "none" <=> modifiedFiles # {})

\* C9: editor launch.  The editor is started only after every candidate has
\* been processed, exactly when a file was modified, on the absolute paths of
\* the modified files, and the run then ends without waiting for the editor:
\* the step that ends the run is not the editor's exit.
EditorLaunch ==
    /\ []EditorLaunchedRight
    /\ [][(pc = "wait" /\ pc' = "done") => editor' = editor]_vars

\* the first component of the reference is neither built-in nor excluded and
\* matches a sibling file or subdirectory
QueryIsRelative ==
    /\ query.module # << >>
    /\ query.module[1] \notin stdlib_module_names \cup exclude_toplevel_module
    /\ \/ query.module[1] \in filesOf(query.fs, query.dirPathRel)
       \/ (query.module[1] \o ".py") \in filesOf(query.fs, query.dirPathRel)
       \/ query.module[1] \in subDirsOf(query.fs, query.dirPathRel)

QueryTarget == query.dirPathRel \o query.module

\* C5: relative resolution.  A reference whose first component is neither a
\* built-in nor an excluded top-level module and matches a sibling file (with
\* or without .py) or a sibling subdirectory resolves, relative to the
\* referencing directory, to the package-init file if the target is a
\* directory holding __init__.py, else to target.py if that file exists, else
\* to None, for every combination of directory / __init__.py / target.py.
RelativeResolution ==
    (resolved # <<"pending">> /\ QueryIsRelative) =>
        resolved =
            IF /\ QueryTarget \in query.fs.dirs
               /\ (QueryTarget \o <<"__init__.py">>) \in query.fs.files
            THEN QueryTarget \o <<"__init__.py">>
            ELSE IF WithExt(QueryTarget, ".py") \in query.fs.files
            THEN WithExt(QueryTarget, ".py")
            ELSE None

\* C10: traversal completeness.  Every import statement and every attribute access
\* identifier.attribute nested at any depth inside a statement of the module
\* body is collected.
TraversalComplete ==
    leaves # None =>
        \A n \in Descendants(stmTree) :
            IsUsageLeaf(n) => n \in Range(leaves[2])

=============================================================================
